---- MODULE Spec2Model ----
(***************************************************************************)
(* A model of unblob/report.py: the report taxonomy, exception capture,    *)
(* the filesystem snapshot (StatReport.from_path), streaming fingerprinting*)
(* (HashReport.from_path), the entropy record and Report.asdict.           *)
(*                                                                         *)
(* The components do not share state, so each has its own specification    *)
(* (SpecHash, SpecStat, SpecError, SpecEntropy, SpecTree, SpecHeap); the   *)
(* variables of the other components stay at their idle value.             *)
(***************************************************************************)
EXTENDS Integers, Sequences, FiniteSets, TLC

VARIABLES
    \* HashReport.from_path
    content,      \* the bytes of the file at `path`
    chunk_size,   \* the block size of f.read(chunk_size)
    h_pc,         \* position in from_path: "call", "loop", "returned", "raised"
    f,            \* the file object: "closed" or "open", and its read offset
    md5, sha1, sha256,   \* the three hashlib accumulators
    h_result,     \* what from_path gave its caller
    h_log,        \* history: every f.read() result, in order
    \* StatReport.from_path
    fs,           \* what is at `path` in the filesystem now
    target_kind,  \* what each symlink target path is: "file", "dir" or "missing"
    s_pc,         \* position in from_path: "call", "readlink", "returned", "raised"
    st,           \* the os.stat_result of line 153
    s_result,     \* what from_path gave its caller
    s_hist,       \* history: the node lstat saw, readlink's outcome, and whether
                  \* another process changed `path` between the two
    \* the error taxonomy
    err,          \* what the last constructor call gave: a report or a raised error
    e_call,       \* history: the class and keyword arguments of that call
    \* the entropy record
    ent,          \* what the last entropy profiling gave: an EntropyReport or an error
    ent_call,     \* history: the bytes and block size it was called with
    ent_props,    \* the highest and lowest properties, as last read from ent
    \* the outcome aggregates and Report.asdict
    tree,         \* the report tree built so far: its root aggregate
    mapping,      \* the last asdict() call: the tree it was called on and its result
    \* reports and the mutable collections they refer to
    lists,        \* the heap of list and set objects, by reference (index)
    objs,         \* the reports constructed: frozen instances holding references
    snap,         \* history: the content of each report when it was constructed
    last_exc      \* the exception of the last attribute assignment, if any

hashVars == <<content, chunk_size, h_pc, f, md5, sha1, sha256, h_result, h_log>>
statVars == <<fs, target_kind, s_pc, st, s_result, s_hist>>
errorVars == <<err, e_call>>
entropyVars == <<ent, ent_call, ent_props>>
treeVars == <<tree, mapping>>
heapVars == <<lists, objs, snap, last_exc>>
nonHashVars == <<statVars, errorVars, entropyVars, treeVars, heapVars>>
nonStatVars == <<hashVars, errorVars, entropyVars, treeVars, heapVars>>
nonErrorVars == <<hashVars, statVars, entropyVars, treeVars, heapVars>>
nonEntropyVars == <<hashVars, statVars, errorVars, treeVars, heapVars>>
nonTreeVars == <<hashVars, statVars, errorVars, entropyVars, heapVars>>
nonHeapVars == <<hashVars, statVars, errorVars, entropyVars, treeVars>>
vars == <<hashVars, statVars, errorVars, entropyVars, treeVars, heapVars>>

None == [kind |-> "None"]

(***************************************************************************)
(* Bounds                                                                  *)
(***************************************************************************)
MaxByte == 1          \* bytes are 0..MaxByte
MaxLen == 3           \* files hold at most MaxLen bytes
MaxChunk == 2         \* chunk_size ranges over 1..MaxChunk
MaxSize == 2          \* regular files are 0..MaxSize bytes long
MaxFrames == 2        \* a traceback holds at most MaxFrames frames
MaxDepth == 2         \* aggregates nest at most MaxDepth deep
MaxLists == 2         \* at most MaxLists list or set objects are allocated
MaxReports == 2       \* at most MaxReports reports are constructed over them
MaxItems == 2         \* a list or set holds at most MaxItems elements

Byte == 0..MaxByte

RECURSIVE SeqsUpTo(_, _)
SeqsUpTo(S, n) ==
    IF n = 0 THEN {<<>>}
    ELSE LET shorter == SeqsUpTo(S, n - 1)
         IN  shorter \cup {Append(s, x) : s \in {t \in shorter : Len(t) = n - 1}, x \in S}

Min2(a, b) == IF a <= b THEN a ELSE b

(***************************************************************************)
(* hashlib: an accumulator holds the running state of a left fold over the *)
(* bytes fed to it (each algorithm has its own initial state and mixing)   *)
(* and, as history, the chunks its update() was called with.               *)
(***************************************************************************)
HashMix(alg, h, b) ==
    CASE alg = "md5"    -> (h * 3 + b + 1) % 251
      [] alg = "sha1"   -> (h * 5 + b + 2) % 241
      [] alg = "sha256" -> (h * 7 + b + 3) % 239

RECURSIVE HashFold(_, _, _)
HashFold(alg, h, bytes) ==
    IF bytes = <<>> THEN h
    ELSE HashFold(alg, HashMix(alg, h, Head(bytes)), Tail(bytes))

\* hashlib.md5(), hashlib.sha1(), hashlib.sha256()
HashNew(alg) ==
    [alg |-> alg,
     h   |-> CASE alg = "md5" -> 7 [] alg = "sha1" -> 11 [] alg = "sha256" -> 13,
     fed |-> <<>>]

\* acc.update(chunk)
HashUpdate(acc, chunk) ==
    [acc EXCEPT !.h = HashFold(acc.alg, acc.h, chunk), !.fed = Append(acc.fed, chunk)]

HexChar(d) ==
    <<"0", "1", "2", "3", "4", "5", "6", "7", "8", "9", "a", "b", "c", "d", "e", "f">>[d + 1]

\* acc.hexdigest(): the state as lowercase hex text, two digits
HexDigest(acc) == HexChar(acc.h \div 16) \o HexChar(acc.h % 16)

\* the single-algorithm reference: one update() call over the whole content
Reference(alg, bytes) == HexDigest(HashUpdate(HashNew(alg), bytes))

(***************************************************************************)
(* HashReport.from_path                                                    *)
(***************************************************************************)
HashReport(m, s1, s256) ==
    [kind |-> "HashReport", md5 |-> m, sha1 |-> s1, sha256 |-> s256]

Raise(exc) == [kind |-> "raise", exc |-> exc]

HashInit ==
    /\ content \in SeqsUpTo(Byte, MaxLen)
    /\ chunk_size \in 1..MaxChunk
    /\ h_pc = "call"
    /\ f = [state |-> "closed", pos |-> 0]
    /\ md5 = None /\ sha1 = None /\ sha256 = None
    /\ h_result = None
    /\ h_log = <<>>

HashIdle ==
    /\ content = <<>>
    /\ chunk_size = 1
    /\ h_pc = "idle"
    /\ f = [state |-> "closed", pos |-> 0]
    /\ md5 = None /\ sha1 = None /\ sha256 = None
    /\ h_result = None
    /\ h_log = <<>>

\* lines 178-183, path.open("rb") succeeds: the accumulators exist, the file is open
OpenOk ==
    /\ h_pc = "call"
    /\ md5' = HashNew("md5")
    /\ sha1' = HashNew("sha1")
    /\ sha256' = HashNew("sha256")
    /\ f' = [state |-> "open", pos |-> 0]
    /\ h_pc' = "loop"
    /\ UNCHANGED <<content, chunk_size, h_result, h_log>>
    /\ UNCHANGED nonHashVars

\* line 183, path.open raises (missing file, permission, ...): OSError propagates
OpenFails ==
    /\ h_pc = "call"
    /\ md5' = HashNew("md5")
    /\ sha1' = HashNew("sha1")
    /\ sha256' = HashNew("sha256")
    /\ h_pc' = "raised"
    /\ h_result' = Raise("OSError")
    /\ UNCHANGED <<content, chunk_size, f, h_log>>
    /\ UNCHANGED nonHashVars

\* line 184, f.read(chunk_size) away from the end of the file: the n > 0 bytes at
\* the offset, n <= chunk_size (fewer than chunk_size: the file's tail or a short read)
ReadSizes(size, left) == 1..Min2(size, left)

\* a loop body that forgets one accumulator
LoopBodySkipsSha1(chunk) ==
    [md5    |-> HashUpdate(md5, chunk),
     sha1   |-> sha1,
     sha256 |-> HashUpdate(sha256, chunk)]

\* lines 185-187, the loop body on `chunk`: the three accumulators after it
LoopBody(chunk) ==
    [md5    |-> HashUpdate(md5, chunk),
     sha1   |-> HashUpdate(sha1, chunk),
     sha256 |-> HashUpdate(sha256, chunk)]

\* lines 184-187: one iteration; the chunk is non-empty (truthy), so the body runs
ReadChunk ==
    /\ h_pc = "loop"
    /\ f.pos < Len(content)
    /\ \E n \in ReadSizes(chunk_size, Len(content) - f.pos) :
         LET chunk == SubSeq(content, f.pos + 1, f.pos + n)
             after == LoopBody(chunk)
         IN  /\ md5' = after.md5
             /\ sha1' = after.sha1
             /\ sha256' = after.sha256
             /\ f' = [f EXCEPT !.pos = f.pos + n]
             /\ h_log' = Append(h_log, [op |-> "read", data |-> chunk])
    /\ UNCHANGED <<content, chunk_size, h_pc, h_result>>
    /\ UNCHANGED nonHashVars

\* lines 189-193: the report built from the three hexdigests
FromPathResult(m, s1, s256) == HashReport(HexDigest(m), HexDigest(s1), HexDigest(s256))

\* lines 184, 189-193: the read at the end of the file is empty (falsy): the loop
\* ends, the with block closes the file, the report is returned
ReadEOF ==
    /\ h_pc = "loop"
    /\ f.pos = Len(content)
    /\ h_log' = Append(h_log, [op |-> "read", data |-> <<>>])
    /\ f' = [f EXCEPT !.state = "closed"]
    /\ h_result' = FromPathResult(md5, sha1, sha256)
    /\ h_pc' = "returned"
    /\ UNCHANGED <<content, chunk_size, md5, sha1, sha256>>
    /\ UNCHANGED nonHashVars

\* a read error swallowed: the digests so far are reported
OnReadErrorReportsPartial(m, s1, s256) == FromPathResult(m, s1, s256)

\* line 184, f.read raises (I/O error, cancellation) with the digests so far in
\* m, s1, s256: nothing in from_path catches it, so what the caller gets is the error
OnReadError(m, s1, s256) == Raise("OSError")

\* line 184 raising: the with block closes the file and the exception propagates;
\* lines 189-193 are not reached
ReadFails ==
    /\ h_pc = "loop"
    /\ h_log' = Append(h_log, [op |-> "read_error"])
    /\ f' = [f EXCEPT !.state = "closed"]
    /\ h_result' = OnReadError(md5, sha1, sha256)
    /\ h_pc' = "raised"
    /\ UNCHANGED <<content, chunk_size, md5, sha1, sha256>>
    /\ UNCHANGED nonHashVars

HashNext == OpenOk \/ OpenFails \/ ReadChunk \/ ReadEOF \/ ReadFails

RECURSIVE Flatten(_)
Flatten(chunks) == IF chunks = <<>> THEN <<>> ELSE Head(chunks) \o Flatten(Tail(chunks))

IsBlock(e) == e.op = "read" /\ e.data # <<>>
IsEmptyRead(e) == e.op = "read" /\ e.data = <<>>
IsReadError(e) == e.op = "read_error"

\* the non-empty blocks read so far, in the order they were read
RECURSIVE BlocksRead(_)
BlocksRead(log) ==
    IF log = <<>> THEN <<>>
    ELSE (IF IsBlock(Head(log)) THEN <<Head(log).data>> ELSE <<>>) \o BlocksRead(Tail(log))

\* C2: the report holds, for md5, sha1 and sha256, the digest the single-algorithm
\* reference computes over the whole content in one call, whatever chunk_size is and
\* however the reads split the file; every block read was fed to all three
\* accumulators, in file order, exactly once; the blocks read are the whole content;
\* the only empty read is the last one, which ended the loop (an empty file gives the
\* digests of the empty input).
StreamingDigestsMatchReference ==
    /\ h_pc \in {"loop", "returned"} =>
          /\ md5.fed = BlocksRead(h_log)
          /\ sha1.fed = BlocksRead(h_log)
          /\ sha256.fed = BlocksRead(h_log)
          /\ \A i \in 1..Len(h_log) : IsEmptyRead(h_log[i]) => i = Len(h_log) /\ h_pc = "returned"
    /\ h_pc = "returned" =>
          /\ h_result = HashReport(Reference("md5", content),
                                   Reference("sha1", content),
                                   Reference("sha256", content))
          /\ Flatten(BlocksRead(h_log)) = content
          /\ IsEmptyRead(h_log[Len(h_log)])
          /\ content = <<>> => h_result = HashReport(HexDigest(HashNew("md5")),
                                                     HexDigest(HashNew("sha1")),
                                                     HexDigest(HashNew("sha256")))

\* a file of several blocks, one of them shorter than chunk_size, was fingerprinted
WitnessStreamedInBlocks ==
    /\ h_pc = "returned"
    /\ Len(BlocksRead(h_log)) >= 2
    /\ \E i \in 1..Len(h_log) : IsBlock(h_log[i]) /\ Len(h_log[i].data) < chunk_size

\* C9: when the file cannot be opened, or a read fails at whichever block, from_path
\* raises an I/O error and returns no HashReport; a HashReport is returned only after
\* a read has reported the end of the file.
FailedRunsReturnNoReport ==
    /\ h_pc = "raised" => h_result = Raise("OSError")
    /\ (\E i \in 1..Len(h_log) : IsReadError(h_log[i])) => h_pc = "raised"
    /\ h_pc \in {"call", "loop"} => h_result = None
    /\ h_result.kind = "HashReport" =>
          /\ h_pc = "returned"
          /\ IsEmptyRead(h_log[Len(h_log)])
          /\ f.pos = Len(content)
          /\ \A i \in 1..Len(h_log) : ~IsReadError(h_log[i])

\* a read failed mid-stream, after at least one block had been digested
WitnessReadFailedMidStream ==
    /\ h_pc = "raised"
    /\ Len(h_log) >= 2
    /\ IsReadError(h_log[Len(h_log)])
    /\ md5.fed # <<>>

(***************************************************************************)
(* The filesystem, os.lstat, os.readlink, pathlib.Path and the stat module *)
(***************************************************************************)
Node(type, size, target, readable) ==
    [type |-> type, size |-> size, target |-> target, readable |-> readable]

\* the text a symlink can hold, as its characters
TargetTexts == {<<"a">>, <<".", "/", "a">>, <<"b", "/">>}

\* what can be at `path`: nothing, a regular file, a directory, a FIFO, or a symlink
\* (whose text readlink may be refused, as for some /proc entries)
Nodes ==
    {Node("missing", 0, <<>>, FALSE), Node("dir", 0, <<>>, FALSE), Node("fifo", 0, <<>>, FALSE)}
    \cup {Node("file", n, <<>>, FALSE) : n \in 0..MaxSize}
    \cup {Node("link", Len(t), t, r) : t \in TargetTexts, r \in BOOLEAN}

S_IFDIR == 16384     \* 0o040000
S_IFREG == 32768     \* 0o100000
S_IFLNK == 40960     \* 0o120000
S_IFIFO == 4096      \* 0o010000

\* stat.S_IFMT(mode): mode & 0o170000
S_IFMT(mode) == ((mode \div 4096) % 16) * 4096

S_ISDIR(mode) == S_IFMT(mode) = S_IFDIR
S_ISREG(mode) == S_IFMT(mode) = S_IFREG
S_ISLNK(mode) == S_IFMT(mode) = S_IFLNK

\* the st_mode of a node: its type bits and permission bits (0o777 link, 0o644 else)
ModeOf(node) ==
    CASE node.type = "dir"  -> S_IFDIR + 420
      [] node.type = "file" -> S_IFREG + 420
      [] node.type = "link" -> S_IFLNK + 511
      [] node.type = "fifo" -> S_IFIFO + 420

Ok(v) == [ok |-> TRUE, value |-> v]
Err(exc) == [ok |-> FALSE, exc |-> exc]

\* pathlib: split the text on "/", drop empty and "." parts, keep a leading root
RECURSIVE SplitText(_, _)
SplitText(text, cur) ==
    IF text = <<>> THEN <<cur>>
    ELSE IF Head(text) = "/" THEN <<cur>> \o SplitText(Tail(text), "")
    ELSE SplitText(Tail(text), cur \o Head(text))

KeptPart(part) == part # "" /\ part # "."

Path(text) ==
    [root  |-> IF text # <<>> /\ Head(text) = "/" THEN "/" ELSE "",
     parts |-> SelectSeq(SplitText(text, ""), KeptPart)]

TargetPaths == {Path(t) : t \in TargetTexts}

\* os.lstat: the metadata of the node itself
LstatCall(node) ==
    IF node.type = "missing" THEN Err("FileNotFoundError")
    ELSE Ok([st_mode |-> ModeOf(node), st_size |-> node.size])

\* os.stat, which from_path does not call: the metadata of what the node resolves to
StatCall(node, tk) ==
    IF node.type # "link" THEN LstatCall(node)
    ELSE CASE tk[Path(node.target)] = "missing" -> Err("FileNotFoundError")
           [] tk[Path(node.target)] = "file"    -> Ok([st_mode |-> S_IFREG + 420, st_size |-> 1])
           [] tk[Path(node.target)] = "dir"     -> Ok([st_mode |-> S_IFDIR + 420, st_size |-> 0])

\* os.readlink: the text of a symlink; EINVAL for anything that is not one
ReadlinkCall(node) ==
    CASE node.type = "missing"                -> Err("FileNotFoundError")
      [] node.type = "link" /\ node.readable  -> Ok(node.target)
      [] node.type = "link" /\ ~node.readable -> Err("PermissionError")
      [] OTHER                                -> Err("OSError")

\* the exception classes met here and their base classes
IsSubclass(exc, cls) ==
    \/ exc = cls
    \/ cls = "OSError" /\ exc \in {"PermissionError", "FileNotFoundError"}

(***************************************************************************)
(* StatReport.from_path                                                    *)
(***************************************************************************)
StatReport(path, size, is_dir, is_file, is_link, link_target) ==
    [kind |-> "StatReport", path |-> path, size |-> size, is_dir |-> is_dir,
     is_file |-> is_file, is_link |-> is_link, link_target |-> link_target]

NoHist == [seen |-> None, readlink |-> None, raced |-> FALSE]

StatInit ==
    /\ fs \in Nodes
    /\ target_kind \in [TargetPaths -> {"file", "dir", "missing"}]
    /\ s_pc = "call"
    /\ st = None
    /\ s_result = None
    /\ s_hist = NoHist

StatIdle ==
    /\ fs = Node("missing", 0, <<>>, FALSE)
    /\ target_kind = [p \in TargetPaths |-> "missing"]
    /\ s_pc = "idle"
    /\ st = None
    /\ s_result = None
    /\ s_hist = NoHist

\* a primary query that resolves symlinks (path.stat())
PrimaryStatFollows(node, tk) == StatCall(node, tk)

\* line 153, path.lstat(): the primary metadata query
PrimaryStat(node, tk) == LstatCall(node)

\* line 153 succeeds (line 154 reads the mode from st)
LstatOk ==
    /\ s_pc = "call"
    /\ PrimaryStat(fs, target_kind).ok
    /\ st' = PrimaryStat(fs, target_kind).value
    /\ s_hist' = [s_hist EXCEPT !.seen = fs]
    /\ s_pc' = "readlink"
    /\ UNCHANGED <<fs, target_kind, s_result>>
    /\ UNCHANGED nonStatVars

\* line 153 raises because nothing is at `path`: the error propagates
LstatMissing ==
    /\ s_pc = "call"
    /\ ~PrimaryStat(fs, target_kind).ok
    /\ s_result' = Raise(PrimaryStat(fs, target_kind).exc)
    /\ s_pc' = "raised"
    /\ UNCHANGED <<fs, target_kind, st, s_hist>>
    /\ UNCHANGED nonStatVars

\* line 153 raises although something is at `path` (a parent directory that may not
\* be searched): the error propagates
LstatDenied ==
    /\ s_pc = "call"
    /\ fs.type # "missing"
    /\ s_result' = Raise("PermissionError")
    /\ s_pc' = "raised"
    /\ UNCHANGED <<fs, target_kind, st, s_hist>>
    /\ UNCHANGED nonStatVars

\* an except clause that names only the missing-file error
CaughtClassNarrow == "FileNotFoundError"

\* line 157: the class the except clause names
CaughtClass == "OSError"

\* lines 155-158: the try block on what os.readlink gave
LinkTarget(outcome) ==
    IF outcome.ok THEN Ok(Path(outcome.value))
    ELSE IF IsSubclass(outcome.exc, CaughtClass) THEN Ok(None)
    ELSE Err(outcome.exc)

\* lines 160-167: the report, from the st of line 153 and the link_target
BuildStatReport(stat, link_target) ==
    StatReport("path", stat.st_size, S_ISDIR(stat.st_mode), S_ISREG(stat.st_mode),
               S_ISLNK(stat.st_mode), link_target)

\* lines 155-167: os.readlink on what is at `path` now, then the report
ReadlinkAndReturn ==
    /\ s_pc = "readlink"
    /\ LET outcome == ReadlinkCall(fs)
           lt == LinkTarget(outcome)
       IN  /\ s_hist' = [s_hist EXCEPT !.readlink = outcome]
           /\ IF lt.ok
              THEN /\ s_result' = BuildStatReport(st, lt.value)
                   /\ s_pc' = "returned"
              ELSE /\ s_result' = Raise(lt.exc)
                   /\ s_pc' = "raised"
    /\ UNCHANGED <<fs, target_kind, st>>
    /\ UNCHANGED nonStatVars

\* another process replaces, removes or retargets what is at `path`, before the call
\* or between line 153 and line 156
OtherProcessChangesPath ==
    /\ s_pc \in {"call", "readlink"}
    /\ \E node \in Nodes \ {fs} : fs' = node
    /\ s_hist' = [s_hist EXCEPT !.raced = s_hist.raced \/ s_pc = "readlink"]
    /\ UNCHANGED <<target_kind, s_pc, st, s_result>>
    /\ UNCHANGED nonStatVars

StatNext ==
    LstatOk \/ LstatMissing \/ LstatDenied \/ ReadlinkAndReturn \/ OtherProcessChangesPath

(***************************************************************************)
(* Python values met by the error taxonomy. Text is a sequence of tokens   *)
(* (a token stands for a run of characters), so that "".join is            *)
(* concatenation and "contains" is a test on the tokens.                   *)
(***************************************************************************)
PyStr(tokens) == [kind |-> "str", text |-> tokens]

PyExc(cls, msg, frames, cause) ==
    [kind |-> "exception", cls |-> cls, msg |-> msg, frames |-> frames, cause |-> cause]

\* an object that is neither str nor Exception: an int, None, a KeyboardInterrupt
PyOther(what) == [kind |-> "other", what |-> what]

\* the exception classes raised in the pipeline: name, defining module
ExcClasses == {"ValueError", "OSError", "ExtractError"}

ModuleOf(cls) == IF cls = "ExtractError" THEN "unblob.file_utils" ELSE "builtins"

\* traceback.format_exception_only: "Name: message\n", "Name\n" for an empty
\* message, the name qualified by the module unless that is builtins
FormatExceptionOnly(e) ==
    (IF ModuleOf(e.cls) = "builtins" THEN <<>> ELSE <<ModuleOf(e.cls), ".">>)
    \o <<e.cls>>
    \o (IF e.msg = "" THEN <<>> ELSE <<": ", e.msg>>)
    \o <<"\n">>

RECURSIVE FormatFrames(_)
FormatFrames(n) == IF n = 0 THEN <<>> ELSE FormatFrames(n - 1) \o <<"  File ..., line ...\n">>

\* the traceback part: nothing when e.__traceback__ is None
FormatTb(e) ==
    IF e.frames = 0 THEN <<>>
    ELSE <<"Traceback (most recent call last):\n">> \o FormatFrames(e.frames)

\* traceback.format_exception(type(e), e, e.__traceback__), joined: the chained
\* cause first, then the traceback, then the exception line
RECURSIVE FormatException(_)
FormatException(e) ==
    (IF e.cause = None THEN <<>>
     ELSE FormatException(e.cause)
          \o <<"\nThe above exception was the direct cause of the following exception:\n\n">>)
    \o FormatTb(e) \o FormatExceptionOnly(e)

Contains(text, token) == \E i \in 1..Len(text) : text[i] = token

Strings == {<<>>, <<"boom">>, <<"Traceback (most recent call last):\n", "KeyError", ": ", "'x'", "\n">>}

PlainExceptions == {PyExc(c, m, n, None) : c \in ExcClasses, m \in {"", "bad header"}, n \in 0..MaxFrames}

Exceptions == PlainExceptions \cup {PyExc("ExtractError", "failed", 1, PyExc("OSError", "", 1, None))}

CaptureInputs ==
    {PyStr(s) : s \in Strings} \cup Exceptions \cup {PyOther("int"), PyOther("KeyboardInterrupt")}

\* a converter that keeps only str(e)
ConvertWithStr(obj) ==
    IF obj.kind = "str" THEN Ok(obj)
    ELSE IF obj.kind = "exception" THEN Ok(PyStr(IF obj.msg = "" THEN <<>> ELSE <<obj.msg>>))
    ELSE Err("ValueError")

\* lines 47-53
convert_exception_to_str(obj) ==
    IF obj.kind = "str" THEN Ok(obj)
    ELSE IF obj.kind = "exception" THEN Ok(PyStr(FormatException(obj)))
    ELSE Err("ValueError")

(***************************************************************************)
(* Severity and the nine error variants                                    *)
(***************************************************************************)
Severity == {"ERROR", "WARNING"}

\* the keyword argument was not passed
Unset == "<unset>"

ErrorClasses ==
    {"UnknownError", "CalculateChunkExceptionReport", "CalculateMultiFileExceptionReport",
     "ExtractCommandFailedReport", "ExtractDirectoryExistsReport",
     "ExtractorDependencyNotFoundReport", "ExtractorTimedOut", "MaliciousSymlinkRemoved",
     "MultiFileCollisionReport"}

\* every variant defaulting to ERROR
DefaultSeverityAllError(cls) == "ERROR"

\* the default of the severity field of each class (lines 60, 94, 103, 111, 119, 128,
\* 137); the two specializations of UnknownError inherit line 60
DefaultSeverity(cls) ==
    CASE cls = "UnknownError"                      -> "ERROR"
      [] cls = "CalculateChunkExceptionReport"     -> "ERROR"
      [] cls = "CalculateMultiFileExceptionReport" -> "ERROR"
      [] cls = "ExtractCommandFailedReport"        -> "WARNING"
      [] cls = "ExtractDirectoryExistsReport"      -> "ERROR"
      [] cls = "ExtractorDependencyNotFoundReport" -> "ERROR"
      [] cls = "ExtractorTimedOut"                 -> "ERROR"
      [] cls = "MaliciousSymlinkRemoved"           -> "WARNING"
      [] cls = "MultiFileCollisionReport"          -> "ERROR"

\* the attrs-generated __init__ on the severity keyword
InitSeverity(cls, given) == IF given = Unset THEN DefaultSeverity(cls) ELSE given

\* the attrs-generated __init__: the fields, with severity defaulted
NewReport(cls, given, fields) ==
    [kind |-> "report", cls |-> cls, severity |-> InitSeverity(cls, given), fields |-> fields]

Call(cls, given, args) == [cls |-> cls, severity |-> given, args |-> args]

ErrorInit ==
    /\ err = None
    /\ e_call = None

ErrorIdle ==
    /\ err = None
    /\ e_call = None

\* the attrs-generated __init__ of UnknownError and its specializations: the
\* converter runs on `exception`; if it raises, no report is made
NewUnknownError(cls, given, exception, fields) ==
    LET converted == convert_exception_to_str(exception)
    IN  IF converted.ok
        THEN NewReport(cls, given, [exception |-> converted.value] @@ fields)
        ELSE Raise(converted.exc)

\* lines 56-63
ConstructUnknownError ==
    /\ \E given \in Severity \cup {Unset}, exception \in CaptureInputs :
         /\ err' = NewUnknownError("UnknownError", given, exception, <<>>)
         /\ e_call' = Call("UnknownError", given, [exception |-> exception])
    /\ UNCHANGED nonErrorVars

\* lines 72-78
ConstructCalculateChunkExceptionReport ==
    /\ \E given \in Severity \cup {Unset}, exception \in CaptureInputs, start_offset \in {0, 16} :
         /\ err' = NewUnknownError("CalculateChunkExceptionReport", given, exception,
                                   [start_offset |-> start_offset, handler |-> "zip"])
         /\ e_call' = Call("CalculateChunkExceptionReport", given, [exception |-> exception])
    /\ UNCHANGED nonErrorVars

\* lines 81-87
ConstructCalculateMultiFileExceptionReport ==
    /\ \E given \in Severity \cup {Unset}, exception \in CaptureInputs :
         /\ err' = NewUnknownError("CalculateMultiFileExceptionReport", given, exception,
                                   [path |-> "/a/x.bin", handler |-> "multi-sevenzip"])
         /\ e_call' = Call("CalculateMultiFileExceptionReport", given, [exception |-> exception])
    /\ UNCHANGED nonErrorVars

\* lines 90-98
ConstructExtractCommandFailedReport ==
    /\ \E given \in Severity \cup {Unset}, exit_code \in {1, 2}, stderr \in {<<>>, <<98, 97, 100>>} :
         LET fields == [command |-> "unpack foo.bin", stdout |-> <<>>, stderr |-> stderr,
                        exit_code |-> exit_code]
         IN  /\ err' = NewReport("ExtractCommandFailedReport", given, fields)
             /\ e_call' = Call("ExtractCommandFailedReport", given, fields)
    /\ UNCHANGED nonErrorVars

\* lines 101-104
ConstructExtractDirectoryExistsReport ==
    /\ \E given \in Severity \cup {Unset}, path \in {"out", "out/foo_extract"} :
         /\ err' = NewReport("ExtractDirectoryExistsReport", given, [path |-> path])
         /\ e_call' = Call("ExtractDirectoryExistsReport", given, [path |-> path])
    /\ UNCHANGED nonErrorVars

\* lines 107-112
ConstructExtractorDependencyNotFoundReport ==
    /\ \E given \in Severity \cup {Unset}, dependencies \in {<<"7z">>, <<"7z", "unar">>} :
         /\ err' = NewReport("ExtractorDependencyNotFoundReport", given,
                             [dependencies |-> dependencies])
         /\ e_call' = Call("ExtractorDependencyNotFoundReport", given,
                           [dependencies |-> dependencies])
    /\ UNCHANGED nonErrorVars

\* lines 115-121
ConstructExtractorTimedOut ==
    /\ \E given \in Severity \cup {Unset}, timeout \in {1, 60} :
         LET fields == [cmd |-> "unpack foo.bin", timeout |-> timeout]
         IN  /\ err' = NewReport("ExtractorTimedOut", given, fields)
             /\ e_call' = Call("ExtractorTimedOut", given, fields)
    /\ UNCHANGED nonErrorVars

\* lines 124-130
ConstructMaliciousSymlinkRemoved ==
    /\ \E given \in Severity \cup {Unset}, target \in {"/etc/passwd", "../../x"} :
         LET fields == [link |-> "out/link", target |-> target]
         IN  /\ err' = NewReport("MaliciousSymlinkRemoved", given, fields)
             /\ e_call' = Call("MaliciousSymlinkRemoved", given, fields)
    /\ UNCHANGED nonErrorVars

\* lines 133-139
ConstructMultiFileCollisionReport ==
    /\ \E given \in Severity \cup {Unset}, paths \in {{"/a/x.bin"}, {"/a/x.bin", "/a/y.bin"}} :
         LET fields == [paths |-> paths, handler |-> "multi-sevenzip"]
         IN  /\ err' = NewReport("MultiFileCollisionReport", given, fields)
             /\ e_call' = Call("MultiFileCollisionReport", given, fields)
    /\ UNCHANGED nonErrorVars

ErrorNext ==
    \/ ConstructUnknownError
    \/ ConstructCalculateChunkExceptionReport
    \/ ConstructCalculateMultiFileExceptionReport
    \/ ConstructExtractCommandFailedReport
    \/ ConstructExtractDirectoryExistsReport
    \/ ConstructExtractorDependencyNotFoundReport
    \/ ConstructExtractorTimedOut
    \/ ConstructMaliciousSymlinkRemoved
    \/ ConstructMultiFileCollisionReport

UnknownErrorClasses ==
    {"UnknownError", "CalculateChunkExceptionReport", "CalculateMultiFileExceptionReport"}

\* C1: in every UnknownError, CalculateChunkExceptionReport and
\* CalculateMultiFileExceptionReport that was constructed, the exception field holds
\* text: the string passed, unchanged, or, for an exception object passed, non-empty
\* text that contains the name of the exception's class; an object that is neither
\* makes the constructor raise ValueError instead of storing it.
ExceptionFieldHoldsCapturedText ==
    (e_call # None /\ e_call.cls \in UnknownErrorClasses) =>
        LET given == e_call.args.exception
        IN  /\ err.kind = "report" => err.fields.exception.kind = "str"
            /\ given.kind = "str" => err.kind = "report" /\ err.fields.exception = given
            /\ given.kind = "exception" =>
                  /\ err.kind = "report"
                  /\ err.fields.exception.text # <<>>
                  /\ Contains(err.fields.exception.text, given.cls)
            /\ given.kind = "other" => err = Raise("ValueError")

\* an exception with an empty message and no traceback was captured in a
\* CalculateChunkExceptionReport
WitnessBareExceptionCaptured ==
    /\ e_call # None
    /\ e_call.cls = "CalculateChunkExceptionReport"
    /\ e_call.args.exception.kind = "exception"
    /\ e_call.args.exception.msg = ""
    /\ e_call.args.exception.frames = 0
    /\ err.kind = "report"

\* C4: a variant constructed without a severity carries its default: WARNING for
\* ExtractCommandFailedReport and MaliciousSymlinkRemoved, ERROR for the other seven;
\* a severity passed at construction is the report's severity; the severity of every
\* report is ERROR or WARNING.
DefaultSeverityPerVariant ==
    (e_call # None /\ err.kind = "report") =>
        /\ err.cls = e_call.cls
        /\ err.severity \in {"ERROR", "WARNING"}
        /\ e_call.severity # Unset => err.severity = e_call.severity
        /\ (e_call.severity = Unset
              /\ err.cls \in {"ExtractCommandFailedReport", "MaliciousSymlinkRemoved"}) =>
                 err.severity = "WARNING"
        /\ (e_call.severity = Unset
              /\ err.cls \in {"UnknownError", "CalculateChunkExceptionReport",
                              "CalculateMultiFileExceptionReport",
                              "ExtractDirectoryExistsReport",
                              "ExtractorDependencyNotFoundReport", "ExtractorTimedOut",
                              "MultiFileCollisionReport"}) =>
                 err.severity = "ERROR"

\* the failed extraction command of the scenario, constructed without a severity
WitnessCommandFailedDefault ==
    /\ e_call # None
    /\ e_call.cls = "ExtractCommandFailedReport"
    /\ e_call.severity = Unset
    /\ err.kind = "report"
    /\ err.fields.exit_code = 2
    /\ err.fields.stderr = <<98, 97, 100>>
    /\ err.severity = "WARNING"

(***************************************************************************)
(* EntropyReport, and the entropy profiling that produces it. The producer *)
(* is not part of report.py; it is modelled from its specified contract.   *)
(* Percentages are whole numbers.                                          *)
(***************************************************************************)
EntropyReport(percentages, block_size, mean) ==
    [kind |-> "EntropyReport", percentages |-> percentages, block_size |-> block_size,
     mean |-> mean]

\* Python's max(list) and min(list): ValueError on an empty list
RECURSIVE PyMax(_)
PyMax(seq) ==
    IF Len(seq) = 1 THEN seq[1]
    ELSE LET rest == PyMax(Tail(seq)) IN IF seq[1] >= rest THEN seq[1] ELSE rest

RECURSIVE PyMin(_)
PyMin(seq) ==
    IF Len(seq) = 1 THEN seq[1]
    ELSE LET rest == PyMin(Tail(seq)) IN IF seq[1] <= rest THEN seq[1] ELSE rest

\* a highest that was copied from lowest
HighestAsMin(report) ==
    IF report.percentages = <<>> THEN Err("ValueError") ELSE Ok(PyMin(report.percentages))

\* lines 208-210
highest(report) ==
    IF report.percentages = <<>> THEN Err("ValueError") ELSE Ok(PyMax(report.percentages))

\* lines 212-214
lowest(report) ==
    IF report.percentages = <<>> THEN Err("ValueError") ELSE Ok(PyMin(report.percentages))

\* the number of blocks: the input in consecutive blocks of block_size, the last
\* one possibly shorter; an input shorter than one block is one block
BlockCount(len, block_size) ==
    IF len < block_size THEN 1 ELSE (len + block_size - 1) \div block_size

Block(data, block_size, i) ==
    SubSeq(data, (i - 1) * block_size + 1, Min2(i * block_size, Len(data)))

\* the normalized entropy measure of one block on the 0-100 scale: 0 when the block
\* holds at most one byte value, 100 when it holds every byte value
BlockEntropy(block) ==
    LET distinct == Cardinality({block[i] : i \in 1..Len(block)})
    IN  IF distinct <= 1 THEN 0 ELSE ((distinct - 1) * 100) \div MaxByte

RECURSIVE SumSeq(_)
SumSeq(seq) == IF seq = <<>> THEN 0 ELSE Head(seq) + SumSeq(Tail(seq))

\* profile_entropy(data, block_size): an input-validation error for block_size <= 0
ProfileEntropy(data, block_size) ==
    IF block_size <= 0 THEN Raise("ValueError")
    ELSE LET percentages == [i \in 1..BlockCount(Len(data), block_size) |->
                                 BlockEntropy(Block(data, block_size, i))]
         IN  EntropyReport(percentages, block_size, SumSeq(percentages) \div Len(percentages))

EntropyInit ==
    /\ ent = None
    /\ ent_call = None
    /\ ent_props = None

EntropyIdle ==
    /\ ent = None
    /\ ent_call = None
    /\ ent_props = None

\* a worker profiles a byte range and builds the EntropyReport (lines 202-206)
CalculateEntropy ==
    /\ \E data \in SeqsUpTo(Byte, MaxLen), block_size \in -1..MaxLen :
         /\ ent' = ProfileEntropy(data, block_size)
         /\ ent_call' = [data |-> data, block_size |-> block_size]
    /\ ent_props' = None
    /\ UNCHANGED nonEntropyVars

\* a holder of the report reads report.highest and report.lowest (lines 208-214)
ReadHighestLowest ==
    /\ ent.kind = "EntropyReport"
    /\ ent_props' = [highest |-> highest(ent), lowest |-> lowest(ent)]
    /\ UNCHANGED <<ent, ent_call>>
    /\ UNCHANGED nonEntropyVars

EntropyNext == CalculateEntropy \/ ReadHighestLowest

Scalar(v) == [kind |-> "scalar", v |-> v]
PyList(items) == [kind |-> "list", items |-> items]
PySet(items) == [kind |-> "set", items |-> items]
Rep(cls, fields) == [kind |-> "report", cls |-> cls, fields |-> fields]
Dict(items) == [kind |-> "dict", items |-> items]

\* the elements of a set in the order its iteration gives them
SetToSeq(S) == CHOOSE seq \in [1..Cardinality(S) -> S] : {seq[i] : i \in DOMAIN seq} = S

\* asdict without recursion into the field values (recurse=False)
AsdictShallow(inst) == Dict(inst.fields)

RECURSIVE asdict(_), asdict_anything(_)

\* lines 16-17, attr.asdict(self): a dict of every field, each value expanded
asdict(inst) == Dict([a \in DOMAIN inst.fields |-> asdict_anything(inst.fields[a])])

\* attr.asdict on a value: an attrs instance becomes its dict, a list or set
\* becomes a list of its expanded elements, anything else is kept
asdict_anything(val) ==
    CASE val.kind = "report" -> asdict(val)
      [] val.kind = "list"   -> PyList([i \in DOMAIN val.items |-> asdict_anything(val.items[i])])
      [] val.kind = "set"    -> PyList([i \in 1..Cardinality(val.items) |->
                                           asdict_anything(SetToSeq(val.items)[i])])
      [] OTHER               -> val

\* lines 124-130
MaliciousSymlinkRemovedLeaf ==
    Rep("MaliciousSymlinkRemoved",
        [severity |-> Scalar("WARNING"), link |-> Scalar("out/link"),
         target |-> Scalar("/etc/passwd")])

\* lines 133-139
MultiFileCollisionLeaf ==
    Rep("MultiFileCollisionReport",
        [severity |-> Scalar("ERROR"),
         paths |-> PySet({Scalar("/a/x.bin"), Scalar("/a/y.bin")}),
         handler |-> Scalar("multi-sevenzip")])

\* lines 249-266
ExtractionProblemLeaf ==
    Rep("ExtractionProblem",
        [problem |-> Scalar("duplicate entry"), resolution |-> Scalar("skipped"),
         path |-> None])

\* lines 202-206
EntropyLeaf ==
    Rep("EntropyReport",
        [percentages |-> PyList(<<Scalar("0"), Scalar("100")>>), block_size |-> Scalar("1024"),
         mean |-> Scalar("50")])

\* the reports an extraction step attaches to its outcome
Leaves == <<MaliciousSymlinkRemovedLeaf, MultiFileCollisionLeaf, ExtractionProblemLeaf>>

\* lines 217-226
ChunkReport(extraction_reports) ==
    Rep("ChunkReport",
        [id |-> Scalar("c1"), handler_name |-> Scalar("zip"), start_offset |-> Scalar("0"),
         end_offset |-> Scalar("16"), size |-> Scalar("16"), is_encrypted |-> Scalar("False"),
         extraction_reports |-> PyList(extraction_reports)])

\* lines 229-236
UnknownChunkReport(entropy) ==
    Rep("UnknownChunkReport",
        [id |-> Scalar("u1"), start_offset |-> Scalar("16"), end_offset |-> Scalar("32"),
         size |-> Scalar("16"), entropy |-> entropy])

\* lines 239-246
MultiFileReport(extraction_reports) ==
    Rep("MultiFileReport",
        [id |-> Scalar("m1"), handler_name |-> Scalar("multi-sevenzip"),
         name |-> Scalar("x.7z"),
         paths |-> PyList(<<Scalar("/a/x.7z.001"), Scalar("/a/x.7z.002")>>),
         extraction_reports |-> PyList(extraction_reports)])

RECURSIVE Depth(_)
Depth(val) ==
    CASE val.kind = "report" ->
           LET below == {Depth(val.fields[a]) : a \in DOMAIN val.fields}
           IN  1 + (CHOOSE d \in below : \A e \in below : e <= d)
      [] val.kind = "list" ->
           IF val.items = <<>> THEN 0
           ELSE LET below == {Depth(val.items[i]) : i \in DOMAIN val.items}
                IN  CHOOSE d \in below : \A e \in below : e <= d
      [] OTHER -> 0

\* the lists of nested reports an aggregate is given: nothing, or up to two of the
\* leaves and the tree built so far
Nested ==
    LET pool == IF tree = None THEN Leaves ELSE Append(Leaves, tree)
    IN  {<<>>} \cup {<<pool[i]>> : i \in DOMAIN pool}
               \cup {<<pool[i], pool[j]>> : i \in DOMAIN pool, j \in DOMAIN pool}

TreeInit ==
    /\ tree = None
    /\ mapping = None

TreeIdle ==
    /\ tree = None
    /\ mapping = None

CanNest == tree = None \/ Depth(tree) <= MaxDepth

\* lines 217-226: a chunk outcome over the reports of its extraction
NewChunkReport ==
    /\ CanNest
    /\ \E extraction_reports \in Nested : tree' = ChunkReport(extraction_reports)
    /\ mapping' = None
    /\ UNCHANGED nonTreeVars

\* lines 229-236: an unknown region, with or without its entropy
NewUnknownChunkReport ==
    /\ \E entropy \in {None, EntropyLeaf} : tree' = UnknownChunkReport(entropy)
    /\ mapping' = None
    /\ UNCHANGED nonTreeVars

\* lines 239-246: a multi-file outcome over the reports of its extraction
NewMultiFileReport ==
    /\ CanNest
    /\ \E extraction_reports \in Nested : tree' = MultiFileReport(extraction_reports)
    /\ mapping' = None
    /\ UNCHANGED nonTreeVars

\* lines 16-17: a consumer serializes the tree
CallAsdict ==
    /\ tree # None
    /\ mapping' = [of |-> tree, result |-> asdict(tree)]
    /\ UNCHANGED tree
    /\ UNCHANGED nonTreeVars

TreeNext == NewChunkReport \/ NewUnknownChunkReport \/ NewMultiFileReport \/ CallAsdict

\* whether a report is left anywhere in a value
RECURSIVE HasReport(_)
HasReport(val) ==
    CASE val.kind = "report" -> TRUE
      [] val.kind = "dict"   -> \E a \in DOMAIN val.items : HasReport(val.items[a])
      [] val.kind = "list"   -> \E i \in DOMAIN val.items : HasReport(val.items[i])
      [] val.kind = "set"    -> \E x \in val.items : HasReport(x)
      [] OTHER               -> FALSE

\* whether m is val with every report replaced by a mapping of its fields and every
\* list or set by a list of its expanded elements
RECURSIVE Expanded(_, _)
Expanded(val, m) ==
    CASE val.kind = "report" ->
           /\ m.kind = "dict"
           /\ DOMAIN m.items = DOMAIN val.fields
           /\ \A a \in DOMAIN val.fields : Expanded(val.fields[a], m.items[a])
      [] val.kind = "list" ->
           /\ m.kind = "list"
           /\ Len(m.items) = Len(val.items)
           /\ \A i \in DOMAIN val.items : Expanded(val.items[i], m.items[i])
      [] val.kind = "set" ->
           /\ m.kind = "list"
           /\ Len(m.items) = Cardinality(val.items)
           /\ \A x \in val.items : \E i \in DOMAIN m.items : Expanded(x, m.items[i])
      [] OTHER -> m = val

\* C8: asdict on an outcome aggregate with nested reports at any depth returns a
\* mapping (it does not raise) in which every nested report, as a field, a list
\* element or an optional field, is replaced by its own mapping, so that no report is
\* left anywhere in it; the tree it was called on is unchanged.
AsdictExpandsEveryNestedReport ==
    mapping # None =>
        /\ mapping.result.kind = "dict"
        /\ ~HasReport(mapping.result)
        /\ Expanded(tree, mapping.result)
        /\ mapping.of = tree

\* a chunk outcome holding an aggregate that itself holds a collision report (with
\* its set of paths) was serialized
WitnessNestedTreeSerialized ==
    /\ mapping # None
    /\ tree.cls = "ChunkReport"
    /\ Depth(tree) > MaxDepth
    /\ \E i \in DOMAIN tree.fields.extraction_reports.items :
         LET inner == tree.fields.extraction_reports.items[i]
         IN  /\ inner.cls \in {"ChunkReport", "MultiFileReport"}
             /\ \E j \in DOMAIN inner.fields.extraction_reports.items :
                  inner.fields.extraction_reports.items[j] = MultiFileCollisionLeaf

\* an unknown region with its entropy report was serialized
WitnessOptionalEntropySerialized ==
    /\ mapping # None
    /\ tree.cls = "UnknownChunkReport"
    /\ tree.fields.entropy # None

(***************************************************************************)
(* Reports as frozen attrs instances over mutable lists and sets: a field  *)
(* annotated List[...] or Set[...] holds a reference to the object the     *)
(* constructor was given (attrs copies nothing).                           *)
(***************************************************************************)
\* what the collections hold, as text: a nested report, a path, a dependency name
Items == {"MaliciousSymlinkRemoved", "/a/x.bin"}

EmptyList == [kind |-> "list", items |-> <<>>]
EmptySet == [kind |-> "set", items |-> {}]

\* the references to the collections of one kind
Refs(kind) == {l \in DOMAIN lists : lists[l].kind = kind}

\* a frozen instance: its class, its scalar fields, and its collection-valued
\* fields as references into the heap
Instance(cls, scalars, refs) == [cls |-> cls, scalars |-> scalars, refs |-> refs]

\* what a holder of the report observes through its fields
Content(obj, heap) ==
    [cls |-> obj.cls, scalars |-> obj.scalars,
     values |-> [a \in DOMAIN obj.refs |-> heap[obj.refs[a]]]]

HeapInit ==
    /\ lists = <<>>
    /\ objs = <<>>
    /\ snap = <<>>
    /\ last_exc = None

HeapIdle ==
    /\ lists = <<>>
    /\ objs = <<>>
    /\ snap = <<>>
    /\ last_exc = None

\* a caller makes a list ([]) or a set (set())
AllocateCollection ==
    /\ Len(lists) < MaxLists
    /\ \E empty \in {EmptyList, EmptySet} : lists' = Append(lists, empty)
    /\ UNCHANGED <<objs, snap, last_exc>>
    /\ UNCHANGED nonHeapVars

\* the attrs-generated __init__ of a frozen class: the instance exists with the
\* references it was given
Construct(obj) ==
    /\ Len(objs) < MaxReports
    /\ objs' = Append(objs, obj)
    /\ snap' = Append(snap, Content(obj, lists))
    /\ UNCHANGED <<lists, last_exc>>
    /\ UNCHANGED nonHeapVars

\* lines 217-226
ConstructChunkReport ==
    \E l \in Refs("list") :
        Construct(Instance("ChunkReport", [id |-> "c1", handler_name |-> "zip"],
                           [extraction_reports |-> l]))

\* lines 107-112
ConstructDependencyNotFoundReport ==
    \E l \in Refs("list") :
        Construct(Instance("ExtractorDependencyNotFoundReport", [severity |-> "ERROR"],
                           [dependencies |-> l]))

\* lines 133-139
ConstructCollisionReport ==
    \E l \in Refs("set") :
        Construct(Instance("MultiFileCollisionReport",
                           [severity |-> "ERROR", handler |-> "multi-sevenzip"],
                           [paths |-> l]))

\* report.field = value on a frozen=True class (lines 12, 27, 56, ..., 240):
\* attrs raises FrozenInstanceError and the instance is as before
SetAttribute ==
    /\ objs # <<>>
    /\ \E i \in DOMAIN objs : last_exc' = [kind |-> "raise", exc |-> "FrozenInstanceError", on |-> i]
    /\ UNCHANGED <<lists, objs, snap>>
    /\ UNCHANGED nonHeapVars

\* a holder of the list (the caller that made it, or anyone through
\* report.extraction_reports or report.dependencies) appends to it
ListAppend ==
    /\ \E l \in Refs("list"), x \in Items :
         /\ Len(lists[l].items) < MaxItems
         /\ lists' = [lists EXCEPT ![l].items = Append(@, x)]
    /\ UNCHANGED <<objs, snap, last_exc>>
    /\ UNCHANGED nonHeapVars

\* a holder of the set (through report.paths) adds to it
SetAdd ==
    /\ \E l \in Refs("set"), x \in Items :
         /\ Cardinality(lists[l].items) < MaxItems
         /\ x \notin lists[l].items
         /\ lists' = [lists EXCEPT ![l].items = @ \cup {x}]
    /\ UNCHANGED <<objs, snap, last_exc>>
    /\ UNCHANGED nonHeapVars

\* a holder empties the list or the set (clear())
CollectionClear ==
    /\ \E l \in DOMAIN lists :
         /\ lists[l] \notin {EmptyList, EmptySet}
         /\ lists' = [lists EXCEPT ![l] = IF @.kind = "list" THEN EmptyList ELSE EmptySet]
    /\ UNCHANGED <<objs, snap, last_exc>>
    /\ UNCHANGED nonHeapVars

HeapNext ==
    \/ AllocateCollection
    \/ ConstructChunkReport
    \/ ConstructDependencyNotFoundReport
    \/ ConstructCollisionReport
    \/ SetAttribute
    \/ ListAppend
    \/ SetAdd
    \/ CollectionClear

\* C3: whatever the holders of a report do, to it or to the values its fields hold
\* (the extraction_reports list, the paths set, the dependencies list), the content
\* observed through every field of every report is its content at construction.
ReportsKeepConstructionContent ==
    \A i \in DOMAIN objs : Content(objs[i], lists) = snap[i]

\* C5: once the primary metadata query (lstat) has succeeded, from_path returns a
\* StatReport: whatever the symlink-target read fails with (not a symlink, permission
\* denied, path gone), the report has link_target absent; the only error that
\* propagates is the primary query's, and then there is no report. A regular file of
\* size N, left alone during the call, gives is_file, not is_dir, size N and no
\* link_target.
SnapshotFailsOnlyInPrimaryQuery ==
    /\ s_pc = "raised" =>
          /\ s_result.kind = "raise"
          /\ s_hist.seen = None
          /\ s_hist.readlink = None
    /\ s_pc = "returned" =>
          /\ s_result.kind = "StatReport"
          /\ ~s_hist.readlink.ok => s_result.link_target = None
          /\ (s_hist.seen.type = "file" /\ ~s_hist.raced) =>
                /\ s_result.is_file
                /\ ~s_result.is_dir
                /\ s_result.size = s_hist.seen.size
                /\ s_result.link_target = None

\* a regular file of non-zero size was snapshotted: readlink failed with EINVAL
WitnessRegularFileSnapshot ==
    /\ s_pc = "returned"
    /\ s_hist.seen.type = "file"
    /\ s_hist.seen.size > 0
    /\ ~s_hist.raced
    /\ s_hist.readlink = Err("OSError")

\* a symlink whose text may not be read was snapshotted: readlink was refused
WitnessReadlinkDenied ==
    /\ s_pc = "returned"
    /\ s_hist.seen.type = "link"
    /\ s_hist.readlink = Err("PermissionError")

\* C6: the report describes the node at `path` itself. For a symlink with readable
\* text T, left alone during the call, is_link holds, link_target is the path T, and
\* is_file and is_dir are false whatever T is (file, directory, missing); in every
\* report at most one of is_dir, is_file, is_link holds, and each holds exactly when
\* the node lstat saw is of that type.
SnapshotDoesNotFollowSymlinks ==
    s_pc = "returned" =>
          /\ ~(s_result.is_dir /\ s_result.is_file)
          /\ ~(s_result.is_dir /\ s_result.is_link)
          /\ ~(s_result.is_file /\ s_result.is_link)
          /\ s_result.is_dir <=> s_hist.seen.type = "dir"
          /\ s_result.is_file <=> s_hist.seen.type = "file"
          /\ s_result.is_link <=> s_hist.seen.type = "link"
          /\ (s_hist.seen.type = "link" /\ s_hist.seen.readable /\ ~s_hist.raced) =>
                /\ s_result.is_link
                /\ ~s_result.is_file
                /\ ~s_result.is_dir
                /\ s_result.link_target = Path(s_hist.seen.target)

\* a symlink to a directory, written with a trailing slash, was snapshotted
WitnessSymlinkToDirectory ==
    /\ s_pc = "returned"
    /\ s_hist.seen.type = "link"
    /\ s_hist.seen.readable
    /\ ~s_hist.raced
    /\ s_hist.seen.target = <<"b", "/">>
    /\ target_kind[Path(s_hist.seen.target)] = "dir"
    /\ s_result.link_target = [root |-> "", parts |-> <<"b">>]

\* C10: in every StatReport from_path returns, link_target is present only if
\* is_link is true, also when another process changes `path` between lstat and
\* readlink.
LinkTargetOnlyForLinks ==
    s_pc = "returned" => (s_result.link_target # None => s_result.is_link)

(***************************************************************************)
(* Specifications: one component runs, the others stay idle                *)
(***************************************************************************)
InitHash == HashInit /\ StatIdle /\ ErrorIdle /\ EntropyIdle /\ TreeIdle /\ HeapIdle

SpecHash == InitHash /\ [][HashNext]_vars

InitStat == StatInit /\ HashIdle /\ ErrorIdle /\ EntropyIdle /\ TreeIdle /\ HeapIdle

SpecStat == InitStat /\ [][StatNext]_vars

InitError == ErrorInit /\ HashIdle /\ StatIdle /\ EntropyIdle /\ TreeIdle /\ HeapIdle

SpecError == InitError /\ [][ErrorNext]_vars

InitEntropy == EntropyInit /\ HashIdle /\ StatIdle /\ ErrorIdle /\ TreeIdle /\ HeapIdle

SpecEntropy == InitEntropy /\ [][EntropyNext]_vars

InitTree == TreeInit /\ HashIdle /\ StatIdle /\ ErrorIdle /\ EntropyIdle /\ HeapIdle

SpecTree == InitTree /\ [][TreeNext]_vars

InitHeap == HeapInit /\ HashIdle /\ StatIdle /\ ErrorIdle /\ EntropyIdle /\ TreeIdle

SpecHeap == InitHeap /\ [][HeapNext]_vars

====
